---- MODULE Spec2Model ----
(***************************************************************************)
(* The two app-store image tools:                                          *)
(*   tools/crop-for-apple.py          crop_center and the batch driver     *)
(*   tools/generate-feature-graphic.py ensure_exact_size, find_icon, the   *)
(*                                     model probe and the generation call *)
(*                                                                         *)
(* Python floats are IEEE-754 binary64.  They are modelled exactly: a      *)
(* positive double is a 53-bit mantissa (a natural number held as base     *)
(* 2^15 limbs, least significant first) and a binary exponent, and every   *)
(* operation rounds to nearest, ties to even, as the hardware does.        *)
(***************************************************************************)
EXTENDS Integers, Sequences, FiniteSets, TLC

VARIABLES
    \* one call of a pure function (crop_center or ensure_exact_size)
    fn_image,        \* <<width, height>> of the image passed in
    fn_target,       \* <<target_width, target_height>>
    fn_pc,           \* "call" | "done"
    fn_out,          \* what the call computed
    \* crop-for-apple.py main
    argv1,           \* sys.argv[1], "" when there is none
    input_dir,       \* whether INPUT_DIR exists
    input_files,     \* the *.png files of INPUT_DIR: name -> content
    disk_ok,         \* name -> whether cropped.save(output_path) succeeds
    c_pc,            \* position in main
    c_target,        \* <<target_width, target_height>>
    images,          \* list(INPUT_DIR.glob("*.png")), in the order glob gave
    c_queue,         \* what the for loop over sorted(images) has left
    attempted,       \* the names the loop body was entered for, in order
    success,         \* the success counter
    output_files,    \* name -> size of the file written to OUTPUT_DIR
    reported,        \* <<success, len(images)>> as printed by line 120
    c_exit,          \* the process's exit code, NotExited while it runs
    \* generate-feature-graphic.py main
    api_key,         \* os.environ.get("GOOGLE_API_KEY")
    icon_exists,     \* path of ICON_PATHS -> path.exists()
    icon_ok,         \* path of ICON_PATHS -> whether Image.open(path) succeeds
    g_pc,            \* position in main / generate_feature_graphic
    icon_path,       \* the icon found, "None" for None
    probe_idx,       \* index of the next entry of models_to_try
    model_name,      \* the model selected, "None" for None
    net_calls,       \* every generate_content request made, in order
    response,        \* the generation response: its parts
    part_idx,        \* index of the next part the scan will look at
    examined,        \* indexes of the parts the scan looked at, in order
    stage,           \* how far the processing of the image part got
    out_image,       \* the file written to feature-graphic.png
    retval,          \* what generate_feature_graphic returned
    g_exit           \* the process's exit code, NotExited while it runs

fnVars == <<fn_image, fn_target, fn_pc, fn_out>>
cVars  == <<argv1, input_dir, input_files, disk_ok, c_pc, c_target, images, c_queue,
            attempted, success, output_files, reported, c_exit>>
gVars  == <<api_key, icon_exists, icon_ok, g_pc, icon_path, probe_idx, model_name, net_calls,
            response, part_idx, examined, stage, out_image, retval, g_exit>>
vars   == <<fnVars, cVars, gVars>>

(***************************************************************************)
(* Bounds of the model.                                                    *)
(***************************************************************************)
MaxSmallDim == 4
MaxFiles == 2
MaxParts == 2

(***************************************************************************)
(* Natural numbers of any size: sequences of base-2^15 limbs, least        *)
(* significant first, no leading zero limb (zero is the empty sequence).   *)
(***************************************************************************)
LimbBits == 15
Base == 2^LimbBits

Big == Seq(Nat)

BFromInt[n \in Nat] == IF n = 0 THEN <<>> ELSE <<n % Base>> \o BFromInt[n \div Base]

BToInt[x \in Big] == IF x = <<>> THEN 0 ELSE x[1] + Base * BToInt[Tail(x)]

BTrim[x \in Big] ==
    IF x # <<>> /\ x[Len(x)] = 0 THEN BTrim[SubSeq(x, 1, Len(x) - 1)] ELSE x

BMulC[x \in Big, k \in Nat, c \in Nat] ==
    IF x = <<>> THEN BFromInt[c]
    ELSE <<(x[1] * k + c) % Base>> \o BMulC[Tail(x), k, (x[1] * k + c) \div Base]

\* x * k, for 0 <= k <= Base
BMulSmall[x \in Big, k \in Nat] == BTrim[BMulC[x, k, 0]]

BCmpAt[x \in Big, y \in Big, i \in Nat] ==
    IF i = 0 THEN 0
    ELSE IF x[i] > y[i] THEN 1
    ELSE IF x[i] < y[i] THEN -1
    ELSE BCmpAt[x, y, i - 1]

\* -1, 0, 1 as x < y, x = y, x > y
BCmp[x \in Big, y \in Big] ==
    IF Len(x) > Len(y) THEN 1
    ELSE IF Len(x) < Len(y) THEN -1
    ELSE BCmpAt[x, y, Len(x)]

BSubC[x \in Big, y \in Big, b \in {0, 1}] ==
    IF x = <<>> THEN <<>>
    ELSE LET t == x[1] - (IF y = <<>> THEN 0 ELSE y[1]) - b
         IN  <<t % Base>> \o BSubC[Tail(x), IF y = <<>> THEN y ELSE Tail(y),
                                   IF t < 0 THEN 1 ELSE 0]

\* x - y, for x >= y
BSub[x \in Big, y \in Big] == BTrim[BSubC[x, y, 0]]

BInc[x \in Big] ==
    IF x = <<>> THEN <<1>>
    ELSE IF x[1] + 1 < Base THEN <<x[1] + 1>> \o Tail(x)
    ELSE <<0>> \o BInc[Tail(x)]

\* 2 * x
BDouble[x \in Big] == BMulC[x, 2, 0]

IntBitLen[n \in Nat] == IF n = 0 THEN 0 ELSE 1 + IntBitLen[n \div 2]

BBitLen[x \in Big] ==
    IF x = <<>> THEN 0 ELSE LimbBits * (Len(x) - 1) + IntBitLen[x[Len(x)]]

BOdd[x \in Big] == x # <<>> /\ x[1] % 2 = 1

\* x * 2^s
BShl[x \in Big, s \in Nat] ==
    IF x = <<>> THEN x
    ELSE [i \in 1..(s \div LimbBits) |-> 0] \o BMulSmall[x, 2^(s % LimbBits)]

\* short division of x by k from the top limb down, r the remainder so far
BDivC[x \in Big, k \in Nat, r \in Nat] ==
    IF x = <<>> THEN <<>>
    ELSE BDivC[SubSeq(x, 1, Len(x) - 1), k, (r * Base + x[Len(x)]) % k]
         \o <<(r * Base + x[Len(x)]) \div k>>

\* floor(x / k), for 1 <= k <= Base
BDivSmall[x \in Big, k \in Nat] == BTrim[BDivC[x, k, 0]]

\* floor(x / 2^s)
BShr[x \in Big, s \in Nat] ==
    IF s \div LimbBits >= Len(x) THEN <<>>
    ELSE BDivSmall[SubSeq(x, s \div LimbBits + 1, Len(x)), 2^(s % LimbBits)]

\* the quotient q of n by d rounded to nearest, ties to even: up exactly when
\* twice the remainder n - q * d is above d, or equal to d with q odd
RoundQuotient[q \in Big, rem \in Big, d \in Big] ==
    IF BCmp[BDouble[rem], d] > 0 \/ (BCmp[BDouble[rem], d] = 0 /\ BOdd[q])
    THEN BInc[q] ELSE q

\* q = floor(n / d) rounded to nearest, ties to even
RoundedQuotient[n \in Big, q \in Big, d \in Big, qd \in Big] ==
    RoundQuotient[q, BSub[n, qd], d]

\* x / 2^s rounded to the nearest integer, ties to even
BShrRound[x \in Big, s \in Nat] ==
    IF s = 0 THEN x
    ELSE RoundedQuotient[x, BShr[x, s], BShl[<<1>>, s], BShl[BShr[x, s], s]]

(***************************************************************************)
(* Python float: IEEE-754 binary64, positive and finite.  [m, e] is the    *)
(* value m * 2^e with 2^52 <= m < 2^53.                                    *)
(***************************************************************************)
Prec == 53

Float == [m : Big, e : Int]

\* a rounding that carried into bit 54 is 2^53 exactly: renormalise
FNorm[m \in Big, e \in Int] ==
    IF BBitLen[m] > Prec THEN [m |-> BShr[m, 1], e |-> e + 1] ELSE [m |-> m, e |-> e]

\* float(n), exact for 1 <= n < 2^31
FFromInt[n \in Nat] ==
    [m |-> BShl[BFromInt[n], Prec - IntBitLen[n]], e |-> IntBitLen[n] - Prec]

\* restoring division by d, one quotient bit a step, until the quotient has 53
\* bits; then the rounding
FDivLoop[q \in Big, r \in Big, d \in Big] ==
    IF BBitLen[q] = Prec THEN RoundQuotient[q, r, d]
    ELSE IF BCmp[BDouble[r], d] >= 0
    THEN FDivLoop[BInc[BDouble[q]], BSub[BDouble[r], d], d]
    ELSE FDivLoop[BDouble[q], BDouble[r], d]

\* a / b for two floats: the exact quotient rounded to 53 bits
FDiv[a \in Float, b \in Float] ==
    IF BCmp[a.m, b.m] >= 0
    THEN FNorm[FDivLoop[<<1>>, BSub[a.m, b.m], b.m], a.e - b.e - (Prec - 1)]
    ELSE FNorm[FDivLoop[<<1>>, BSub[BDouble[a.m], b.m], b.m], a.e - b.e - Prec]

\* a * 2^k / b rounded to nearest, ties to even, for ints 1 <= a, 1 <= b < Base
ScaledQuotient[a \in Nat, b \in Nat, k \in Nat] ==
    LET n == BShl[BFromInt[a], k]
        q == BDivSmall[n, b]
    IN  RoundedQuotient[n, q, BFromInt[b], BMulSmall[q, b]]

\* the k that gives a * 2^k / b 53 bits: 2^52 <= a * 2^k / b < 2^53
QuotientShift[a \in Nat, b \in Nat] ==
    LET la == IntBitLen[a]
        lb == IntBitLen[b]
        ge == IF la >= lb THEN a >= b * 2^(la - lb) ELSE a * 2^(lb - la) >= b
    IN  (IF ge THEN Prec - 1 ELSE Prec) - (la - lb)

\* a / b for two positive ints below Base (Python's true division): the exact
\* quotient rounded to 53 bits
TrueDiv[a \in Nat, b \in Nat] ==
    FNorm[ScaledQuotient[a, b, QuotientShift[a, b]], -QuotientShift[a, b]]

\* the 53-bit product p * 2^e
FRound[p \in Big, e \in Int] ==
    FNorm[BShrRound[p, BBitLen[p] - Prec], e + BBitLen[p] - Prec]

\* n * f for an int 1 <= n <= Base: the exact product rounded to 53 bits
FMulInt[n \in Nat, f \in Float] == FRound[BMulSmall[f.m, n], f.e]

FGt[a \in Float, b \in Float] == a.e > b.e \/ (a.e = b.e /\ BCmp[a.m, b.m] > 0)

FLt[a \in Float, b \in Float] == FGt[b, a]

\* max(a, b): b only when it is greater
FMax[a \in Float, b \in Float] == IF FGt[b, a] THEN b ELSE a

\* int(f): truncation
FTrunc[f \in Float] ==
    IF f.e >= 0 THEN BToInt[BShl[f.m, f.e]] ELSE BToInt[BShr[f.m, -f.e]]

(***************************************************************************)
(* Pillow, as far as the tools use it: only sizes matter here.             *)
(***************************************************************************)
\* Image.crop(box): the result has the size of the box, whatever the box covers
CropSize(box) == <<box[3] - box[1], box[4] - box[2]>>

BoxInside(box, size) ==
    /\ 0 <= box[1] /\ 0 <= box[2]
    /\ box[1] <= box[3] /\ box[2] <= box[4]
    /\ box[3] <= size[1] /\ box[4] <= size[2]

(***************************************************************************)
(* crop-for-apple.py: crop_center                                          *)
(***************************************************************************)
APPLE_DIMENSIONS == [k \in {"6.7", "6.5"} |-> IF k = "6.7" THEN <<1284, 2778>> ELSE <<1242, 2688>>]

DEFAULT_SIZE == "6.7"

NeedsUpscaleLoose(img_width, img_height, target_width, target_height) ==
    img_width <= target_width \/ img_height <= target_height

\* line 49
NeedsUpscale(img_width, img_height, target_width, target_height) ==
    img_width < target_width \/ img_height < target_height

\* lines 50-52
UpscaledSize(img_width, img_height, target_width, target_height) ==
    LET scale == FMax[TrueDiv[target_width, img_width], TrueDiv[target_height, img_height]]
    IN  <<FTrunc[FMulInt[img_width, scale]], FTrunc[FMulInt[img_height, scale]]>>

\* lines 57-60
CenterBox(img_width, img_height, target_width, target_height) ==
    LET left == (img_width - target_width) \div 2
        top  == (img_height - target_height) \div 2
    IN  <<left, top, left + target_width, top + target_height>>

crop_center(size, target_width, target_height) ==
    LET up   == NeedsUpscale(size[1], size[2], target_width, target_height)
        cur  == IF up THEN UpscaledSize(size[1], size[2], target_width, target_height)
                ELSE size
        box  == CenterBox(cur[1], cur[2], target_width, target_height)
    IN  [resized |-> up, size |-> cur, box |-> box, out |-> CropSize(box)]

(***************************************************************************)
(* generate-feature-graphic.py: ensure_exact_size                          *)
(***************************************************************************)
OUTPUT_WIDTH == 1024
OUTPUT_HEIGHT == 500

FitOffsetUncentred(full, part) == full - part

\* lines 84 and 89: where the kept span starts
FitOffset(full, part) == (full - part) \div 2

\* line 83
FitNewWidth(current_height, target_ratio) ==
    FTrunc[FMulInt[current_height, target_ratio]]

\* line 88
FitNewHeight(current_width, target_ratio) ==
    FTrunc[FDiv[FFromInt[current_width], target_ratio]]

\* lines 77-90: the crop, before the resize
FitCrop(size, target_width, target_height) ==
    LET current_width  == size[1]
        current_height == size[2]
        target_ratio   == TrueDiv[target_width, target_height]
        current_ratio  == TrueDiv[current_width, current_height]
    IN  IF FGt[current_ratio, target_ratio] THEN
            LET new_width == FitNewWidth(current_height, target_ratio)
                left      == FitOffset(current_width, new_width)
            IN  [branch |-> "wider", box |-> <<left, 0, left + new_width, current_height>>]
        ELSE IF FLt[current_ratio, target_ratio] THEN
            LET new_height == FitNewHeight(current_width, target_ratio)
                top        == FitOffset(current_height, new_height)
            IN  [branch |-> "taller", box |-> <<0, top, current_width, top + new_height>>]
        ELSE [branch |-> "equal", box |-> <<0, 0, current_width, current_height>>]

\* line 93: Image.resize of an image with no pixels is Pillow's business: it
\* may raise
ResizeRaises(cropped) ==
    IF cropped[1] >= 1 /\ cropped[2] >= 1 THEN {FALSE} ELSE {FALSE, TRUE}

\* the crop of one call of ensure_exact_size and, unless the resize raises, its result
ensure_exact_size(size, target_width, target_height) ==
    LET c == FitCrop(size, target_width, target_height)
    IN  [branch |-> c.branch, box |-> c.box, cropped |-> CropSize(c.box),
         out |-> <<target_width, target_height>>]

(***************************************************************************)
(* Image sizes the calls are tried on: every small size, and sizes around  *)
(* the targets, the scenarios of the specification among them.             *)
(***************************************************************************)
AnchorDims == {39, 79, 85, 500, 800, 1000, 1024, 1242, 1284, 2000, 2048, 2688, 2778, 3000}

Dims == (1..MaxSmallDim) \cup AnchorDims

CropTargets == {APPLE_DIMENSIONS[k] : k \in DOMAIN APPLE_DIMENSIONS}

FitTargets == {<<OUTPUT_WIDTH, OUTPUT_HEIGHT>>, <<OUTPUT_HEIGHT, OUTPUT_WIDTH>>, <<1, 1>>, <<3, 2>>}

\* the exit code of a process that has not exited
NotExited == -1

\* no file written to feature-graphic.png
NoImage == [size |-> <<0, 0>>, mode |-> "", part |-> 0]

CropperOff ==
    /\ argv1 = "" /\ input_dir = FALSE /\ input_files = <<>> /\ disk_ok = <<>>
    /\ c_pc = "off" /\ c_target = <<0, 0>> /\ images = <<>> /\ c_queue = <<>>
    /\ attempted = <<>> /\ success = 0 /\ output_files = <<>> /\ reported = <<>>
    /\ c_exit = NotExited

GraphicOff ==
    /\ api_key = "" /\ icon_exists = <<>> /\ icon_ok = <<>> /\ g_pc = "off"
    /\ icon_path = "None" /\ probe_idx = 0 /\ model_name = "None" /\ net_calls = <<>> /\ response = <<>>
    /\ part_idx = 0 /\ examined = <<>> /\ stage = "none" /\ out_image = NoImage
    /\ retval = "None" /\ g_exit = NotExited

FnOff ==
    /\ fn_image = <<0, 0>> /\ fn_target = <<0, 0>> /\ fn_pc = "off" /\ fn_out = <<>>

\* ---- one call of crop_center ----
InitCropCenter ==
    /\ fn_image \in Dims \X Dims
    /\ fn_target \in CropTargets
    /\ fn_pc = "call"
    /\ fn_out = <<>>
    /\ CropperOff /\ GraphicOff

CallCropCenter ==
    /\ fn_pc = "call"
    /\ fn_out' = crop_center(fn_image, fn_target[1], fn_target[2])
    /\ fn_pc' = "done"
    /\ UNCHANGED <<fn_image, fn_target, cVars, gVars>>

SpecCropCenter == InitCropCenter /\ [][CallCropCenter]_vars

\* ---- one call of ensure_exact_size ----
InitEnsureExactSize ==
    /\ fn_image \in Dims \X Dims
    /\ fn_target \in FitTargets
    /\ fn_pc = "call"
    /\ fn_out = <<>>
    /\ CropperOff /\ GraphicOff

CallEnsureExactSize ==
    /\ fn_pc = "call"
    /\ LET r == ensure_exact_size(fn_image, fn_target[1], fn_target[2])
       IN  \E raised \in ResizeRaises(r.cropped) :
              fn_out' = [branch |-> r.branch, box |-> r.box, cropped |-> r.cropped,
                         raised |-> raised,
                         out |-> IF raised THEN <<0, 0>> ELSE r.out]
    /\ fn_pc' = "done"
    /\ UNCHANGED <<fn_image, fn_target, cVars, gVars>>

SpecEnsureExactSize == InitEnsureExactSize /\ [][CallEnsureExactSize]_vars

(***************************************************************************)
(* crop-for-apple.py: main                                                 *)
(***************************************************************************)
\* lines 69-71
SizeKey(arg) == IF arg # "" /\ arg \in DOMAIN APPLE_DIMENSIONS THEN arg ELSE DEFAULT_SIZE

Min(S) == CHOOSE m \in S : \A n \in S : m <= n

Range(s) == {s[i] : i \in DOMAIN s}

RECURSIVE Ascending(_)
Ascending(S) == IF S = {} THEN <<>> ELSE <<Min(S)>> \o Ascending(S \ {Min(S)})

SortedAsGlobbed(s) == s

\* sorted(images), line 96
Sorted(s) == Ascending(Range(s))

\* every order glob may list the files in
Orders(S) == {s \in [1..Cardinality(S) -> S] : Range(s) = S}

\* what a *.png file of INPUT_DIR may hold
BatchSizes == {<<2000, 3000>>, <<800, 800>>}

FileContents ==
    {[kind |-> "undecodable", size |-> <<0, 0>>], [kind |-> "truncated", size |-> <<2000, 3000>>]}
    \cup {[kind |-> "image", size |-> s] : s \in BatchSizes}

InitCropper ==
    /\ argv1 \in {"", "6.7", "6.5", "5.5"}
    /\ input_dir \in BOOLEAN
    /\ \E names \in SUBSET (1..MaxFiles) :
          /\ input_dir = FALSE => names = {}
          /\ input_files \in [names -> FileContents]
          /\ disk_ok \in [names -> BOOLEAN]
    /\ c_pc = "start"
    /\ c_target = <<0, 0>>
    /\ images = <<>> /\ c_queue = <<>> /\ attempted = <<>>
    /\ success = 0
    /\ output_files = <<>>
    /\ reported = <<>>
    /\ c_exit = NotExited
    /\ FnOff /\ GraphicOff

CExit(code) == c_pc' = "exited" /\ c_exit' = code

\* lines 66-80: the target, then the input directory
CropperStart ==
    /\ c_pc = "start"
    /\ c_target' = APPLE_DIMENSIONS[SizeKey(argv1)]
    /\ IF ~input_dir THEN CExit(1) ELSE c_pc' = "find" /\ UNCHANGED c_exit
    /\ UNCHANGED <<argv1, input_dir, input_files, disk_ok, images, c_queue, attempted,
                   success, output_files, reported, fnVars, gVars>>

\* lines 82-95: the glob, then the loop's iterator
FindImages ==
    /\ c_pc = "find"
    /\ \E listing \in Orders(DOMAIN input_files) :
          /\ images' = listing
          /\ IF listing = <<>>
             THEN CExit(1) /\ UNCHANGED c_queue
             ELSE c_pc' = "loop" /\ c_queue' = Sorted(listing) /\ UNCHANGED c_exit
    /\ success' = 0
    /\ UNCHANGED <<argv1, input_dir, input_files, disk_ok, c_target, attempted,
                   output_files, reported, fnVars, gVars>>

\* lines 96-118: one turn of the loop; an exception ends the turn, not the loop
ProcessImage ==
    /\ c_pc = "loop" /\ c_queue # <<>>
    /\ LET input_path == Head(c_queue)
           file       == input_files[input_path]
           cropped    == crop_center(file.size, c_target[1], c_target[2])
           saved      == file.kind = "image" /\ disk_ok[input_path]
       IN  /\ attempted' = Append(attempted, input_path)
           /\ output_files' =
                 IF saved
                 THEN [n \in DOMAIN output_files \cup {input_path} |->
                          IF n = input_path THEN cropped.out ELSE output_files[n]]
                 ELSE output_files
           /\ success' = IF saved THEN success + 1 ELSE success
    /\ c_queue' = Tail(c_queue)
    /\ UNCHANGED <<argv1, input_dir, input_files, disk_ok, c_pc, c_target, images,
                   reported, c_exit, fnVars, gVars>>

\* lines 120-125, and main returning
Report ==
    /\ c_pc = "loop" /\ c_queue = <<>>
    /\ reported' = <<success, Len(images)>>
    /\ CExit(0)
    /\ UNCHANGED <<argv1, input_dir, input_files, disk_ok, c_target, images, c_queue,
                   attempted, success, output_files, fnVars, gVars>>

NextCropper == CropperStart \/ FindImages \/ ProcessImage \/ Report

SpecCropper == InitCropper /\ [][NextCropper]_vars

(***************************************************************************)
(* generate-feature-graphic.py: main and generate_feature_graphic          *)
(***************************************************************************)
ICON_PATHS == <<"assets/icon.png", "assets/adaptive-icon.png">>

models_to_try == <<"gemini-3-pro-image-preview", "gemini-2.5-flash-image">>

ApiKeyUnset(key) == key = "unset"

\* line 195, `not api_key`: None or the empty string
ApiKeyMissing(key) == key = "unset" \/ key = ""

RECURSIVE FirstExisting(_, _)
FirstExisting(paths, exists) ==
    IF paths = <<>> THEN "None"
    ELSE IF exists[Head(paths)] THEN Head(paths)
    ELSE FirstExisting(Tail(paths), exists)

\* lines 64-69
find_icon(exists) == FirstExisting(ICON_PATHS, exists)

ProbeLoopNeverBreaks(ok, idx) == idx < Len(models_to_try)

\* lines 227-243: whether the for loop takes another turn after this one
ProbeLoopGoesOn(ok, idx) == ~ok /\ idx < Len(models_to_try)

\* lines 158-163: the mode the saved image has
Flatten(mode) == IF mode = "RGBA" THEN "RGB" ELSE IF mode # "RGB" THEN "RGB" ELSE mode

ExitCodeIgnoringResult(result) == 0

\* lines 252-260
ExitCode(result) == IF result = "True" THEN 0 ELSE 1

ScanGoesOnPartByPart == TRUE

\* the for loop of line 143 is inside the try of line 103: an exception in a
\* part's processing leaves the loop for the handler of line 184
ScanGoesOnAfterError == FALSE

\* the parts a response may hold: text, or inline data as a base64 str or as bytes
TextPart == [inline |-> FALSE, enc |-> "", decodable |-> FALSE, size |-> <<0, 0>>, mode |-> ""]

InlinePart(enc, decodable, size, mode) ==
    [inline |-> TRUE, enc |-> enc, decodable |-> decodable, size |-> size, mode |-> mode]

PartSamples ==
    { TextPart,
      InlinePart("bytes", FALSE, <<0, 0>>, ""),
      InlinePart("str", FALSE, <<0, 0>>, ""),
      InlinePart("str", TRUE, <<1024, 1024>>, "RGBA"),
      InlinePart("bytes", TRUE, <<2048, 1000>>, "RGB"),
      InlinePart("bytes", TRUE, <<2, 1>>, "L") }

\* response.parts: None and [] are both the empty sequence
Responses == UNION {[1..n -> PartSamples] : n \in 0..MaxParts}

InitGraphic ==
    /\ api_key \in {"unset", "", "key"}
    /\ icon_exists \in [Range(ICON_PATHS) -> BOOLEAN]
    /\ icon_ok \in [Range(ICON_PATHS) -> BOOLEAN]
    /\ \A p \in Range(ICON_PATHS) : icon_ok[p] => icon_exists[p]
    /\ g_pc = "check_key"
    /\ icon_path = "None" /\ model_name = "None"
    /\ probe_idx = 1
    /\ net_calls = <<>>
    /\ response = <<>> /\ part_idx = 0 /\ examined = <<>>
    /\ stage = "none" /\ out_image = NoImage
    /\ retval = "None"
    /\ g_exit = NotExited
    /\ FnOff /\ CropperOff

GExit(code) == g_pc' = "exited" /\ g_exit' = code

\* lines 193-203
CheckApiKey ==
    /\ g_pc = "check_key"
    /\ IF ApiKeyMissing(api_key) THEN GExit(1) ELSE g_pc' = "find_icon" /\ UNCHANGED g_exit
    /\ UNCHANGED <<api_key, icon_exists, icon_ok, icon_path, probe_idx, model_name,
                   net_calls, response, part_idx, examined, stage, out_image, retval,
                   fnVars, cVars>>

\* lines 205-218
FindIcon ==
    /\ g_pc = "find_icon"
    /\ icon_path' = find_icon(icon_exists)
    /\ IF icon_path' = "None" THEN GExit(1) ELSE g_pc' = "probe" /\ UNCHANGED g_exit
    /\ UNCHANGED <<api_key, icon_exists, icon_ok, probe_idx, model_name, net_calls,
                   response, part_idx, examined, stage, out_image, retval, fnVars, cVars>>

\* lines 227-243: one turn of the probe loop; the service answers or raises
ProbeModel ==
    /\ g_pc = "probe"
    /\ \E ok \in BOOLEAN :
          LET test_model == models_to_try[probe_idx]
          IN  /\ net_calls' = Append(net_calls,
                                     [kind |-> "probe", model |-> test_model, ok |-> ok])
              /\ model_name' = IF ok THEN test_model ELSE model_name
              /\ IF ProbeLoopGoesOn(ok, probe_idx)
                 THEN probe_idx' = probe_idx + 1 /\ UNCHANGED g_pc
                 ELSE g_pc' = "probed" /\ UNCHANGED probe_idx
    /\ UNCHANGED <<api_key, icon_exists, icon_ok, icon_path, response, part_idx,
                   examined, stage, out_image, retval, g_exit, fnVars, cVars>>

\* lines 245-251
AfterProbe ==
    /\ g_pc = "probed"
    /\ IF model_name = "None" THEN GExit(1) ELSE g_pc' = "generate" /\ UNCHANGED g_exit
    /\ UNCHANGED <<api_key, icon_exists, icon_ok, icon_path, probe_idx, model_name,
                   net_calls, response, part_idx, examined, stage, out_image, retval,
                   fnVars, cVars>>

GReturn(result) == g_pc' = "returned" /\ retval' = result

\* lines 103-139: open the icon, then the one generation request
Generate ==
    /\ g_pc = "generate"
    /\ IF ~icon_ok[icon_path]
       THEN GReturn("False") /\ UNCHANGED <<net_calls, response, part_idx>>
       ELSE \E answered \in BOOLEAN :
               /\ net_calls' = Append(net_calls, [kind |-> "generate", model |-> model_name,
                                                  ok |-> answered])
               /\ IF answered
                  THEN /\ response' \in Responses
                       /\ part_idx' = 1
                       /\ g_pc' = "scan" /\ UNCHANGED retval
                  ELSE GReturn("False") /\ UNCHANGED <<response, part_idx>>
    /\ UNCHANGED <<api_key, icon_exists, icon_ok, icon_path, probe_idx, model_name,
                   examined, stage, out_image, g_exit, fnVars, cVars>>

\* lines 143-170: look at one part; a part with inline data is decoded, sized,
\* flattened and saved, and whatever raises on the way is caught by line 184
ScanPart ==
    /\ g_pc = "scan" /\ part_idx <= Len(response)
    /\ examined' = Append(examined, part_idx)
    /\ LET part == response[part_idx]
       IN  IF ~part.inline
           THEN /\ part_idx' = part_idx + 1
                /\ UNCHANGED <<g_pc, stage, out_image, retval>>
           ELSE IF ~part.decodable
           THEN /\ stage' = "found"
                /\ IF ScanGoesOnAfterError
                   THEN part_idx' = part_idx + 1 /\ UNCHANGED <<g_pc, retval>>
                   ELSE GReturn("False") /\ UNCHANGED part_idx
                /\ UNCHANGED out_image
           ELSE LET sized == ensure_exact_size(part.size, OUTPUT_WIDTH, OUTPUT_HEIGHT)
                IN  \E raised \in ResizeRaises(sized.cropped), save_ok \in BOOLEAN :
                   /\ stage' = IF raised THEN "decoded"
                               ELSE IF save_ok THEN "saved" ELSE "flattened"
                   /\ out_image' = IF ~raised /\ save_ok
                                   THEN [size |-> sized.out, mode |-> Flatten(part.mode),
                                         part |-> part_idx]
                                   ELSE out_image
                   /\ IF ~raised /\ save_ok
                      THEN GReturn("True") /\ UNCHANGED part_idx
                      ELSE IF ScanGoesOnAfterError
                      THEN part_idx' = part_idx + 1 /\ UNCHANGED <<g_pc, retval>>
                      ELSE GReturn("False") /\ UNCHANGED part_idx
    /\ UNCHANGED <<api_key, icon_exists, icon_ok, icon_path, probe_idx, model_name,
                   net_calls, response, g_exit, fnVars, cVars>>

\* lines 172-182: no part had inline data
NoImageInResponse ==
    /\ g_pc = "scan" /\ part_idx > Len(response)
    /\ GReturn("False")
    /\ UNCHANGED <<api_key, icon_exists, icon_ok, icon_path, probe_idx, model_name,
                   net_calls, response, part_idx, examined, stage, out_image, g_exit,
                   fnVars, cVars>>

\* lines 252-260, and main returning
MainFinish ==
    /\ g_pc = "returned"
    /\ GExit(ExitCode(retval))
    /\ UNCHANGED <<api_key, icon_exists, icon_ok, icon_path, probe_idx, model_name,
                   net_calls, response, part_idx, examined, stage, out_image, retval,
                   fnVars, cVars>>

NextGraphic ==
    \/ CheckApiKey \/ FindIcon \/ ProbeModel \/ AfterProbe
    \/ Generate \/ ScanPart \/ NoImageInResponse \/ MainFinish

SpecGraphic == InitGraphic /\ [][NextGraphic]_vars

(***************************************************************************)
(* The claims.                                                             *)
(***************************************************************************)

\* C1: a source at least as large as the target in both dimensions is not
\* resized; the crop box is (left, top, left + target_width, top + target_height)
\* with left = (width - target_width) // 2 and top = (height - target_height) // 2,
\* it lies inside the source, and the output is exactly the target size; 2000x3000
\* with target (1284, 2778) is cropped from (358, 111).
C1_LargeSourceCentredCrop ==
    (fn_pc = "done" /\ fn_image[1] >= fn_target[1] /\ fn_image[2] >= fn_target[2]) =>
        LET left == (fn_image[1] - fn_target[1]) \div 2
            top  == (fn_image[2] - fn_target[2]) \div 2
        IN  /\ ~fn_out.resized
            /\ fn_out.size = fn_image
            /\ fn_out.box = <<left, top, left + fn_target[1], top + fn_target[2]>>
            /\ 0 <= left /\ 0 <= top
            /\ fn_out.box[3] <= fn_image[1] /\ fn_out.box[4] <= fn_image[2]
            /\ fn_out.out = fn_target
            /\ (fn_image = <<2000, 3000>> /\ fn_target = <<1284, 2778>>)
                  => (fn_out.box[1] = 358 /\ fn_out.box[2] = 111)

C1_Witness ==
    /\ fn_pc = "done" /\ fn_image = <<2000, 3000>> /\ fn_target = <<1284, 2778>>
    /\ ~fn_out.resized
    /\ fn_out.box = <<358, 111, 1642, 2889>>
    /\ fn_out.out = <<1284, 2778>>

\* C2: a source smaller than the target in some dimension is resized to
\* (trunc(width * scale), trunc(height * scale)), both at least the target's, so
\* the centred crop box lies inside the resized image and the output is exactly
\* the target size; 800x800 with target (1284, 2778) is resized to 2778x2778 and
\* cropped from (747, 0).
C2_UpscaleCoversTarget ==
    (fn_pc = "done" /\ (fn_image[1] < fn_target[1] \/ fn_image[2] < fn_target[2])) =>
        /\ fn_out.resized
        /\ fn_out.size[1] >= fn_target[1] /\ fn_out.size[2] >= fn_target[2]
        /\ BoxInside(fn_out.box, fn_out.size)
        /\ fn_out.out = fn_target
        /\ (fn_image = <<800, 800>> /\ fn_target = <<1284, 2778>>)
              => (fn_out.size = <<2778, 2778>> /\ fn_out.box[1] = 747 /\ fn_out.box[2] = 0)

\* C3: for every source of at least 1x1 and every positive target,
\* ensure_exact_size completes without error, returns exactly the target size, and
\* the cropped image it resizes has positive width and positive height.
C3_AlwaysExactSize ==
    fn_pc = "done" =>
        /\ ~fn_out.raised
        /\ fn_out.out = fn_target
        /\ fn_out.cropped[1] >= 1 /\ fn_out.cropped[2] >= 1

\* C4: the cropper exits 1 when the input directory is missing, when it holds no
\* PNG file, or when every image fails; it exits 0 in every other run.
C4_ExitCodes ==
    c_pc = "exited" =>
        /\ c_exit \in {0, 1}
        /\ c_exit = 1 <=> (~input_dir \/ DOMAIN input_files = {} \/ success = 0)

\* C5: the batch loop attempts every image exactly once, in sorted filename
\* order, whatever fails; the success count is the number of images whose load,
\* crop and save all completed, and the reported total is the number of images
\* enumerated.
C5_BatchLoop ==
    LET completes(n) == input_files[n].kind = "image" /\ disk_ok[n]
        tried        == Range(attempted)
    IN  /\ \A i, j \in 1..Len(attempted) : i < j => attempted[i] < attempted[j]
        /\ tried \subseteq DOMAIN input_files
        /\ \A n \in tried, m \in DOMAIN input_files : m < n => m \in tried
        /\ success = Cardinality({n \in tried : completes(n)})
        /\ DOMAIN output_files = {n \in tried : completes(n)}
        /\ (c_pc = "exited" /\ DOMAIN input_files # {}) => reported # <<>>
        /\ reported # <<>> =>
              /\ tried = DOMAIN input_files
              /\ reported[1] = Cardinality({n \in DOMAIN input_files : completes(n)})
              /\ reported[2] = Cardinality(DOMAIN input_files)

C5_Witness ==
    /\ c_pc = "exited" /\ images = <<2, 1>> /\ attempted = <<1, 2>>
    /\ input_files[1].kind = "undecodable" /\ input_files[2].kind = "image"
    /\ reported = <<1, 2>>

\* C6: the credential is checked first, then the icon, then the models: without
\* a credential (absent or empty) the process exits 1 and no request is ever
\* made; with a credential but no icon candidate it exits 1 and no request is
\* ever made; the icon chosen is the first existing path of the candidate list.
C6_PreconditionOrder ==
    LET key_absent == api_key \in {"unset", ""}
        any_icon   == \E p \in Range(ICON_PATHS) : icon_exists[p]
    IN  /\ key_absent =>
              /\ net_calls = <<>> /\ icon_path = "None"
              /\ g_pc \in {"check_key", "exited"}
              /\ g_pc = "exited" => g_exit = 1
        /\ (~key_absent /\ ~any_icon) =>
              /\ net_calls = <<>>
              /\ g_pc \in {"check_key", "find_icon", "exited"}
              /\ g_pc = "exited" => g_exit = 1
        /\ icon_path # "None" =>
              \E i \in 1..Len(ICON_PATHS) :
                 /\ ICON_PATHS[i] = icon_path /\ icon_exists[icon_path]
                 /\ \A j \in 1..(i - 1) : ~icon_exists[ICON_PATHS[j]]
        /\ net_calls # <<>> => (~key_absent /\ icon_path # "None")

C6_Witness ==
    /\ g_pc = "exited" /\ g_exit = 1 /\ api_key = "key"
    /\ \A p \in Range(ICON_PATHS) : ~icon_exists[p]
    /\ net_calls = <<>>

\* the part of C7 about the probe loop and the order of the requests
C7_Probing(exactly_one_generation) ==
    LET probes == SelectSeq(net_calls, LAMBDA c : c.kind = "probe")
        gens   == SelectSeq(net_calls, LAMBDA c : c.kind = "generate")
        n      == Len(probes)
    IN  /\ net_calls = probes \o gens
        /\ n <= Len(models_to_try)
        /\ \A i \in 1..n : probes[i].model = models_to_try[i]
        /\ \A i \in 1..(n - 1) : ~probes[i].ok
        /\ model_name # "None" => (n >= 1 /\ probes[n].ok /\ model_name = probes[n].model)
        /\ model_name = "None" => \A i \in 1..n : ~probes[i].ok
        /\ Len(gens) <= 1
        /\ \A i \in 1..Len(gens) : model_name # "None" /\ gens[i].model = model_name
        /\ (g_pc = "exited" /\ model_name # "None") =>
              Len(gens) = (IF exactly_one_generation THEN 1 ELSE 0)
        /\ (g_pc = "exited" /\ icon_path # "None" /\ model_name = "None") =>
              (n = Len(models_to_try) /\ gens = <<>> /\ g_exit = 1)

\* C7 as stated: the models are probed in list order, each at most once, up to
\* the first that answers; that one is the model used; nothing after it is
\* probed; exactly one generation request is issued; when none answers the
\* process exits 1 with no generation request.
C7_ProbeThenOneGeneration == C7_Probing(TRUE)

\* C7 amended: as stated, but the generation request is issued exactly once
\* when the icon file opens and not at all when opening it raises.
C7_ProbeThenAtMostOneGeneration == C7_Probing(icon_path # "None" /\ icon_ok[icon_path])

C7_Witness ==
    /\ g_pc = "exited" /\ model_name = models_to_try[2]
    /\ Len(net_calls) = 3
    /\ net_calls[1].kind = "probe" /\ ~net_calls[1].ok
    /\ net_calls[2].kind = "probe" /\ net_calls[2].ok
    /\ net_calls[3].kind = "generate" /\ net_calls[3].model = models_to_try[2]

\* C8: once a model is selected the process exits 0 exactly when
\* generate_feature_graphic decoded, normalized, flattened and saved an inline
\* image; with no part, no inline data, or anything raising it returns False,
\* writes no file and the process exits 1.
C8_ExitZeroIffSaved ==
    (g_pc = "exited" /\ model_name # "None") =>
        LET inline   == {i \in 1..Len(response) : response[i].inline}
            gens     == SelectSeq(net_calls, LAMBDA c : c.kind = "generate")
        IN  /\ g_exit \in {0, 1}
            /\ g_exit = 0 <=> stage = "saved"
            /\ retval = "True" <=> stage = "saved"
            /\ retval = "False" <=> g_exit = 1
            /\ out_image # NoImage <=> stage = "saved"
            /\ stage = "saved" =>
                  /\ out_image.part \in inline /\ response[out_image.part].decodable
                  /\ out_image.size = <<1024, 500>> /\ out_image.mode = "RGB"
            /\ (inline = {} \/ gens = <<>> \/ ~gens[1].ok) =>
                  (g_exit = 1 /\ retval = "False" /\ out_image = NoImage)

C8_Witness ==
    /\ g_pc = "exited" /\ g_exit = 0 /\ stage = "saved"
    /\ Len(response) = 2 /\ ~response[1].inline /\ out_image.part = 2
    /\ response[2].mode = "RGBA"

\* C9: ensure_exact_size crops at most one axis and never pads: a source wider
\* than the target ratio keeps its height and its width shrinks to
\* trunc(current_height * target_ratio) <= current_width; a taller one keeps its
\* width and its height shrinks to trunc(current_width / target_ratio) <=
\* current_height; equal ratios are not cropped; the box lies inside the source
\* and the margins cut from opposite sides differ by at most one pixel.
C9_CropOneAxisCentred ==
    fn_pc = "done" =>
        LET cw  == fn_image[1]
            ch  == fn_image[2]
            tw  == fn_target[1]
            th  == fn_target[2]
            box == fn_out.box
            nw  == box[3] - box[1]
            nh  == box[4] - box[2]
            dx  == box[1] - (cw - box[3])
            dy  == box[2] - (ch - box[4])
        IN  /\ fn_out.cropped = <<nw, nh>>
            /\ 0 <= box[1] /\ box[1] <= box[3] /\ box[3] <= cw
            /\ 0 <= box[2] /\ box[2] <= box[4] /\ box[4] <= ch
            /\ -1 <= dx /\ dx <= 1 /\ -1 <= dy /\ dy <= 1
            /\ cw * th > tw * ch =>
                  /\ fn_out.branch = "wider"
                  /\ nh = ch /\ nw <= cw
                  /\ (ch * tw) \div th - 1 <= nw /\ nw <= (ch * tw) \div th
            /\ cw * th < tw * ch =>
                  /\ fn_out.branch = "taller"
                  /\ nw = cw /\ nh <= ch
                  /\ (cw * th) \div tw - 1 <= nh /\ nh <= (cw * th) \div tw
            /\ cw * th = tw * ch =>
                  /\ fn_out.branch = "equal"
                  /\ box = <<0, 0, cw, ch>>

C9_Witness ==
    /\ fn_pc = "done" /\ fn_image = <<2000, 500>> /\ fn_target = <<1024, 500>>
    /\ fn_out.branch = "wider" /\ fn_out.box = <<488, 0, 1512, 500>>

\* C10: the parts are scanned in order and the first part with inline data alone
\* decides: if it is processed and saved the function returns True and looks at
\* no later part; if processing it raises the function returns False and looks at
\* no later part, even when a later part holds a valid image.
C10_FirstInlinePartDecides ==
    LET inline == {i \in 1..Len(response) : response[i].inline}
        first  == IF inline = {} THEN 0 ELSE CHOOSE i \in inline : \A j \in inline : i <= j
        over   == g_pc \in {"returned", "exited"} /\ examined # <<>>
    IN  /\ examined = [i \in 1..Len(examined) |-> i]
        /\ first # 0 => Len(examined) <= first
        /\ (over /\ first # 0) => Len(examined) = first
        /\ (over /\ first = 0) => (Len(examined) = Len(response) /\ retval = "False")
        /\ retval = "True" => (first # 0 /\ out_image.part = first /\ response[first].decodable)
        /\ (over /\ first # 0 /\ ~response[first].decodable) =>
              (retval = "False" /\ out_image = NoImage)
        /\ out_image # NoImage => out_image.part = first

C10_Witness ==
    /\ g_pc = "exited" /\ Len(response) = 2
    /\ response[1].inline /\ ~response[1].decodable
    /\ response[2].inline /\ response[2].decodable
    /\ examined = <<1>> /\ retval = "False" /\ out_image = NoImage

====
